---- MODULE Spec2Model ----
(***************************************************************************)
(* A model of protou5.py: the vocal-aware mix engine                       *)
(* (detect_vocal_sections, find_safe_transition_point,                     *)
(* determine_transition_point, apply_outgoing_tempo, dj_mix_three_songs)   *)
(* and the QR session subsystem (session_controller, search_page).         *)
(*                                                                         *)
(* Units.  Timestamps are whole seconds.  Energies are hundredths (0.01).  *)
(* Sample rates are samples per second; the rates drawn divide hop_length, *)
(* so librosa.frames_to_time yields whole seconds.  The accumulator        *)
(* current_section_duration grows by 1/sr per frame: the model keeps the   *)
(* number of increments n (the value is n/sr) and compares n against       *)
(* min_section_duration*sr and max_section_duration*sr.                    *)
(***************************************************************************)
EXTENDS Integers, Sequences, FiniteSets, TLC

VARIABLES
    pc,               \* position of the pure-function harness: "ready" | "done"
    op,               \* which function the harness applied
    vocal_energy,     \* librosa.feature.rms(vocals_y), one energy per frame
    sr,               \* sample rate of the vocal stem
    vocal_sections,   \* result of detect_vocal_sections
    beat_times,       \* beat grid handed to the selector
    candidate_sec,    \* candidate handed to find_safe_transition_point
    dur,              \* track duration len(y)/sr handed to determine_transition_point
    transition_point, \* value returned by the selector
    y,                \* waveform handed to apply_outgoing_tempo (sample ids)
    transition_time,  \* its transition_time
    window_sec,       \* its window_sec
    src_bpm,          \* its src_bpm
    tgt_bpm,          \* its tgt_bpm
    ratio,            \* the clamped ratio <<numerator, denominator>>
    y_out,            \* the waveform apply_outgoing_tempo returns
    mpc,              \* position inside dj_mix_three_songs
    error,            \* the exception that ended the job, or "none"
    completed,        \* the steps of the job that have returned
    D,                \* durations (s) of song1, song2, song3
    msr,              \* their sample rate
    ys,               \* y1, y2, y3
    voc,              \* energy envelopes of the vocal stems y1_voc, y2_voc
    bpm,              \* bpm1, bpm2, bpm3
    bt,               \* bt1, bt2
    t_sec,            \* t1, t2 (seconds)
    seg,              \* s1_seg, s2_seg, s3_seg
    s1_part,          \* s1_seg[:t1_ms]
    mix_12,           \* first crossfade
    mix_12_duration,  \* (t1_ms - crossfade_ms) + t2_ms, clamped at 0
    mix_12_part,      \* mix_12[:mix_12_duration]
    final_mix,        \* second crossfade
    output_written,   \* number of writes of the output artifact
    active_token,     \* global active_token
    token_expiry,     \* global token_expiry
    session_inputs,   \* global session_inputs
    clock,            \* time.time()
    cpc,              \* position of the session_controller thread
    wake,             \* the time its current time.sleep ends
    tallies,          \* the tallies taken so far, one per ended session
    hpc,              \* position of each search_page request
    hreq,             \* each request: token, method, query, now, valid
    top_queries,      \* top_queries of the session that ended last
    download_dir,     \* the .mp3 files in DOWNLOAD_DIR: title and mtime
    mix_calls         \* the calls of dj_mix_three_songs made so far

detVars   == <<vocal_energy, sr, vocal_sections>>
safeVars  == <<beat_times, candidate_sec, dur, transition_point>>
tempoVars == <<y, transition_time, window_sec, src_bpm, tgt_bpm, ratio, y_out>>
mixVars   == <<mpc, error, completed, D, msr, ys, voc, bpm, bt, t_sec, seg, s1_part,
               mix_12, mix_12_duration, mix_12_part, final_mix, output_written>>
dirVars   == <<top_queries, download_dir, mix_calls>>
sessVars  == <<active_token, token_expiry, session_inputs, clock, cpc, wake,
               tallies, hpc, hreq, dirVars>>
vars      == <<pc, op, detVars, safeVars, tempoVars, mixVars, sessVars>>

None == -1

(***************************************************************************)
(* Program constants                                                       *)
(***************************************************************************)
HopLength           == 512   \* hop_length=512
MinEnergyThreshold  == 1     \* min_energy_threshold=0.01, in hundredths
MinSectionDuration  == 4     \* min_section_duration=4.0
MaxSectionDuration  == 16    \* max_section_duration=16.0
SearchRadius        == 15    \* search_radius=15.0
VocalMargin         == 2     \* the literal 2.0 of the clearance test
BeatsPerBar         == 4     \* np.arange(0, len(beat_times), 4)
MinT                == 60    \* min_t=60.0
MaxT                == 120   \* max_t=120.0

\* The harness's values of the variables of apply_outgoing_tempo before a call.
InitTempoVars ==
    /\ y = <<>>
    /\ transition_time = 0
    /\ window_sec = 0
    /\ src_bpm = 0
    /\ tgt_bpm = 0
    /\ ratio = <<1, 1>>
    /\ y_out = <<>>

\* An AudioSegment: its frames and its frame rate.
EmptySeg == [frames |-> <<>>, rate |-> 1]

\* The variables of dj_mix_three_songs while no job runs.
InitMixVars ==
    /\ mpc = "idle"
    /\ error = "none"
    /\ completed = {}
    /\ D = <<0, 0, 0>>
    /\ msr = 1
    /\ ys = <<<<>>, <<>>, <<>>>>
    /\ voc = <<<<>>, <<>>>>
    /\ bpm = <<0, 0, 0>>
    /\ bt = <<<<>>, <<>>>>
    /\ t_sec = <<None, None>>
    /\ seg = <<EmptySeg, EmptySeg, EmptySeg>>
    /\ s1_part = EmptySeg
    /\ mix_12 = EmptySeg
    /\ mix_12_duration = 0
    /\ mix_12_part = EmptySeg
    /\ final_mix = EmptySeg
    /\ output_written = 0

NumHandlers == 2     \* search_page requests that may be in flight
Handlers    == 1..NumHandlers
NoRequest   == [token |-> 0, method |-> "GET", query |-> "", now |-> 0, valid |-> FALSE]

\* The module-level globals (lines 48-50) before the controller thread runs.
InitSessVars ==
    /\ active_token = None
    /\ token_expiry = 0
    /\ session_inputs = <<>>
    /\ clock = 0
    /\ cpc = "new_token"
    /\ wake = 0
    /\ tallies = <<>>
    /\ hpc = [h \in Handlers |-> "idle"]
    /\ hreq = [h \in Handlers |-> NoRequest]
    /\ top_queries = <<>>
    /\ download_dir = {}
    /\ mix_calls = <<>>

(***************************************************************************)
(* Bounds of the model                                                     *)
(***************************************************************************)
MaxLead    == 1     \* quiet frames before the first plateau
MaxPlateau == 17    \* frames of the first plateau (one past 16 at sr = 1)
MaxGap     == 1     \* quiet frames between the plateaus
MaxSecond  == 4     \* frames of the second plateau

SampleRates == {1, 128}

Rep(n, x) == [i \in 1..n |-> x]

\* Envelopes: quiet lead, plateau (energy 0.02), gap (energy 0.00 or exactly
\* the threshold 0.01), second plateau.
EnvelopesOver(plateaus) ==
    { Rep(a, 0) \o Rep(p, 2) \o Rep(g, q) \o Rep(s, 2) :
        a \in 0..MaxLead, p \in plateaus, g \in 0..MaxGap,
        q \in {0, 1}, s \in {0, MaxSecond} }

Envelopes == EnvelopesOver(0..MaxPlateau)

(***************************************************************************)
(* detect_vocal_sections                                                   *)
(***************************************************************************)
\* librosa.frames_to_time(np.arange(len(vocal_energy)), sr, hop_length=512):
\* frame i (1-based here) is at (i-1)*hop/sr seconds.
FrameTime(i, rate) == ((i - 1) * HopLength) \div rate

\* min_section_duration <= current_section_duration <= max_section_duration,
\* with current_section_duration = n * (1/sr).
DurationOK(n, rate) ==
    MinSectionDuration * rate <= n /\ n <= MaxSectionDuration * rate

\* The for loop: i is the next frame, start the open section's start (or
\* None), n the accumulator's increments, acc the sections appended so far.
RECURSIVE ScanFrames(_, _, _, _, _, _)
ScanFrames(env, rate, i, start, n, acc) ==
    IF i > Len(env) THEN <<start, n, acc>>
    ELSE IF env[i] > MinEnergyThreshold
         THEN ScanFrames(env, rate, i + 1,
                         IF start = None THEN FrameTime(i, rate) ELSE start,
                         n + 1, acc)
         ELSE IF start # None
              THEN ScanFrames(env, rate, i + 1, None, 0,
                              IF DurationOK(n, rate)
                              THEN Append(acc, <<start, FrameTime(i, rate)>>)
                              ELSE acc)
              ELSE ScanFrames(env, rate, i + 1, start, n, acc)

DetectVocalSections(env, rate) ==
    LET r == ScanFrames(env, rate, 1, None, 0, <<>>)
    IN  IF r[1] # None /\ DurationOK(r[2], rate)
        THEN Append(r[3], <<r[1], FrameTime(Len(env), rate)>>)   \* times[-1]
        ELSE r[3]

(***************************************************************************)
(* Harness for detect_vocal_sections                                       *)
(***************************************************************************)
InitDetect ==
    /\ pc = "ready"
    /\ op = "none"
    /\ vocal_energy \in Envelopes
    /\ sr \in SampleRates
    /\ vocal_sections = <<>>
    /\ beat_times = <<>>
    /\ candidate_sec = 0
    /\ dur = 0
    /\ transition_point = None
    /\ InitTempoVars
    /\ InitMixVars
    /\ InitSessVars

Detect ==
    /\ pc = "ready"
    /\ vocal_sections' = DetectVocalSections(vocal_energy, sr)
    /\ pc' = "done"
    /\ op' = "detect"
    /\ UNCHANGED <<vocal_energy, sr, safeVars, tempoVars, mixVars, sessVars>>

NextDetect == Detect

SpecDetect == InitDetect /\ [][NextDetect]_vars

(***************************************************************************)
(* C2 as stated: duration measured in seconds of audio                     *)
(***************************************************************************)
HighFrames(env) == { i \in 1..Len(env) : env[i] > MinEnergyThreshold }

\* One contiguous run of above-threshold frames, closed by a later quiet frame.
IsSinglePlateau(env) ==
    LET h == HighFrames(env)
    IN  /\ h # {}
        /\ \A i, j \in h : \A k \in i..j : k \in h
        /\ \E c \in 1..Len(env) : c \notin h /\ \A i \in h : i < c

\* Samples of audio the plateau spans: frames * hop (seconds = samples / sr).
PlateauSamples(env) == Cardinality(HighFrames(env)) * HopLength

\* C2: a plateau of exactly minSectionDuration seconds of audio yields exactly
\* one section of that duration; a plateau shorter than minSectionDuration or
\* longer than maxSectionDuration yields none; an envelope never above the
\* threshold yields the empty set.
C2_DurationFilterInSeconds ==
    (pc = "done" /\ op = "detect") =>
        /\ HighFrames(vocal_energy) = {} => vocal_sections = <<>>
        /\ IsSinglePlateau(vocal_energy) =>
              /\ PlateauSamples(vocal_energy) = MinSectionDuration * sr =>
                    /\ Len(vocal_sections) = 1
                    /\ vocal_sections[1][2] - vocal_sections[1][1] = MinSectionDuration
              /\ ( \/ PlateauSamples(vocal_energy) < MinSectionDuration * sr
                   \/ PlateauSamples(vocal_energy) > MaxSectionDuration * sr ) =>
                    vocal_sections = <<>>

(***************************************************************************)
(* find_safe_transition_point and determine_transition_point               *)
(***************************************************************************)
MaxBeats    == 13    \* beats of a drawn grid
MaxBeatStep == 2     \* seconds between beats of a drawn grid

BeatStarts  == {0, 28, 40, 110, 506, 2038}
BeatGrids ==
    { [k \in 1..n |-> s + (k - 1) * st] :
        s \in BeatStarts, st \in 1..MaxBeatStep, n \in 0..MaxBeats }
Candidates  == {0, 10, 36, 120, 510, 514, 2044, 2050}
Durations   == {0, 5, 50, 60, 100, 120, 150, 200, 250}
VocalEnvelopes == EnvelopesOver({0, 4, 17})

Abs(x) == IF x < 0 THEN -x ELSE x

\* bar_indices = np.arange(0, len(beat_times), 4); bar_times = beat_times[bar_indices]
BarTimes(beats) ==
    [j \in 1..((Len(beats) + BeatsPerBar - 1) \div BeatsPerBar) |->
        beats[BeatsPerBar * (j - 1) + 1]]

\* bar_times[(bar_times >= candidate - radius) & (bar_times <= candidate + radius)]
ValidBars(bars, cand, radius) ==
    SelectSeq(bars, LAMBDA b : b >= cand - radius /\ b <= cand + radius)

\* sorted(valid_bars, key=lambda x: abs(x - candidate_sec)): a stable sort.
RECURSIVE InsertByProximity(_, _, _)
InsertByProximity(sorted, x, cand) ==
    IF sorted = <<>> THEN <<x>>
    ELSE IF Abs(Head(sorted) - cand) <= Abs(x - cand)
         THEN <<Head(sorted)>> \o InsertByProximity(Tail(sorted), x, cand)
         ELSE <<x>> \o sorted

RECURSIVE SortByProximity(_, _)
SortByProximity(bars, cand) ==
    IF bars = <<>> THEN <<>>
    ELSE InsertByProximity(SortByProximity(SubSeq(bars, 1, Len(bars) - 1), cand),
                           bars[Len(bars)], cand)

\* The inner loop over vocal_sections, without the "start < bar_time < end" test.
IsBetweenVocalsNoInside(bar_time, sections) ==
    \A k \in 1..Len(sections) :
        ~ ( \/ Abs(bar_time - sections[k][1]) < VocalMargin
            \/ Abs(bar_time - sections[k][2]) < VocalMargin )

\* The inner loop over vocal_sections: is_between_vocals after the loop.
IsBetweenVocals(bar_time, sections) ==
    \A k \in 1..Len(sections) :
        ~ ( \/ Abs(bar_time - sections[k][1]) < VocalMargin
            \/ Abs(bar_time - sections[k][2]) < VocalMargin
            \/ (sections[k][1] < bar_time /\ bar_time < sections[k][2]) )

\* The outer loop with the fallback replaced by the nearest bar.
RECURSIVE FirstSafeBarOrNearest(_, _, _)
FirstSafeBarOrNearest(sorted, sections, cand) ==
    IF sorted = <<>> THEN cand
    ELSE IF IsBetweenVocals(Head(sorted), sections) \/ Len(sorted) = 1
         THEN Head(sorted)
         ELSE FirstSafeBarOrNearest(Tail(sorted), sections, cand)

\* The outer loop: the first safe bar, else the candidate itself (line 254).
RECURSIVE FirstSafeBar(_, _, _)
FirstSafeBar(sorted, sections, cand) ==
    IF sorted = <<>> THEN cand
    ELSE IF IsBetweenVocals(Head(sorted), sections)
         THEN Head(sorted)
         ELSE FirstSafeBar(Tail(sorted), sections, cand)

FindSafeTransitionPoint(env, rate, beats, cand, radius) ==
    FirstSafeBar(SortByProximity(ValidBars(BarTimes(beats), cand, radius), cand),
                 DetectVocalSections(env, rate), cand)

\* The candidate with the short-song branch set to min_t.
CandidateShortAtMinT(d) ==
    IF d < MinT THEN MinT
    ELSE IF d > MaxT THEN (IF (d * 6) \div 10 < MaxT THEN (d * 6) \div 10 ELSE MaxT)
    ELSE (d * 6) \div 10

\* dur * 0.6 in each branch, min(dur * 0.6, max_t) when dur > max_t.  The
\* durations drawn are multiples of 5 s, so dur * 0.6 is a whole second.
Candidate(d) ==
    IF d < MinT THEN (d * 6) \div 10
    ELSE IF d > MaxT THEN (IF (d * 6) \div 10 < MaxT THEN (d * 6) \div 10 ELSE MaxT)
    ELSE (d * 6) \div 10

DetermineTransitionPoint(d, env, rate, beats) ==
    FindSafeTransitionPoint(env, rate, beats, Candidate(d), SearchRadius)

InitSafe ==
    /\ pc = "ready"
    /\ op = "none"
    /\ vocal_energy = <<>>
    /\ sr = 1
    /\ vocal_sections = <<>>
    /\ beat_times = <<>>
    /\ candidate_sec = 0
    /\ dur = 0
    /\ transition_point = None
    /\ InitTempoVars
    /\ InitMixVars
    /\ InitSessVars

\* A call find_safe_transition_point(vocals_y, sr, beat_times, candidate_sec).
FindSafe ==
    /\ pc = "ready"
    /\ \E env \in VocalEnvelopes, rate \in SampleRates,
          beats \in BeatGrids, cand \in Candidates :
        /\ vocal_energy' = env
        /\ sr' = rate
        /\ beat_times' = beats
        /\ candidate_sec' = cand
        /\ vocal_sections' = DetectVocalSections(env, rate)
        /\ transition_point' =
              FindSafeTransitionPoint(env, rate, beats, cand, SearchRadius)
    /\ pc' = "done"
    /\ op' = "find"
    /\ UNCHANGED <<dur, tempoVars, mixVars, sessVars>>

\* A call determine_transition_point(y, sr, vocals_y, sr_voc, beat_times).
Determine ==
    /\ pc = "ready"
    /\ \E d \in Durations, env \in VocalEnvelopes, rate \in SampleRates,
          beats \in BeatGrids :
        /\ dur' = d
        /\ vocal_energy' = env
        /\ sr' = rate
        /\ beat_times' = beats
        /\ candidate_sec' = Candidate(d)
        /\ vocal_sections' = DetectVocalSections(env, rate)
        /\ transition_point' = DetermineTransitionPoint(d, env, rate, beats)
    /\ pc' = "done"
    /\ op' = "determine"
    /\ UNCHANGED <<tempoVars, mixVars, sessVars>>

NextSafe == FindSafe \/ Determine

SpecSafe == InitSafe /\ [][NextSafe]_vars

\* The bars the search considers, and the rule of the specification.
WindowBars ==
    LET v == ValidBars(BarTimes(beat_times), candidate_sec, SearchRadius)
    IN  { v[i] : i \in 1..Len(v) }

RuleSafe(b) ==
    \A k \in 1..Len(vocal_sections) :
        /\ ~ (vocal_sections[k][1] <= b /\ b < vocal_sections[k][2])
        /\ Abs(b - vocal_sections[k][1]) >= VocalMargin
        /\ Abs(b - vocal_sections[k][2]) >= VocalMargin

NearestSafe(t) ==
    /\ RuleSafe(t)
    /\ \A b \in WindowBars : RuleSafe(b) => Abs(b - candidate_sec) >= Abs(t - candidate_sec)

\* C1 as stated: whenever the returned value is a bar of the window, it is
\* outside every vocal section, at least 2.0 s from every section boundary,
\* and no bar satisfying the rule is strictly nearer to the candidate.
C1_ReturnedBarIsSafe ==
    (pc = "done" /\ op = "find" /\ transition_point \in WindowBars) =>
        NearestSafe(transition_point)

\* C1 amended: whenever some bar of the window satisfies the rule, the
\* returned value is a bar of the window that satisfies the rule, and no bar
\* satisfying the rule is strictly nearer to the candidate.
C1_AcceptedBarIsNearestSafe ==
    (pc = "done" /\ op = "find" /\ \E b \in WindowBars : RuleSafe(b)) =>
        /\ transition_point \in WindowBars
        /\ NearestSafe(transition_point)

\* A bar inside a section and clear of both boundaries was nearer and skipped.
C1_Witness ==
    /\ pc = "done" /\ op = "find"
    /\ transition_point \in WindowBars
    /\ RuleSafe(transition_point)
    /\ \E b \in WindowBars :
         /\ Abs(b - candidate_sec) < Abs(transition_point - candidate_sec)
         /\ \E k \in 1..Len(vocal_sections) :
              /\ vocal_sections[k][1] + VocalMargin <= b
              /\ b + VocalMargin <= vocal_sections[k][2]

\* C4: with an empty beat grid, or with every bar of the window excluded,
\* find_safe_transition_point returns exactly the candidate it was given.
C4_ExhaustionReturnsCandidate ==
    (pc = "done" /\ op = "find"
        /\ (beat_times = <<>> \/ \A b \in WindowBars : ~ RuleSafe(b))) =>
        transition_point = candidate_sec

\* Bars lie in the window, all are excluded, none is the candidate.
C4_Witness ==
    /\ pc = "done" /\ op = "find"
    /\ WindowBars # {}
    /\ candidate_sec \notin WindowBars
    /\ \A b \in WindowBars : ~ RuleSafe(b)
    /\ transition_point = candidate_sec

\* C8: for beats within [0, D] the timestamp determine_transition_point
\* returns is defined and lies within [0, D].
C8_ExitWithinTrack ==
    (pc = "done" /\ op = "determine"
        /\ \A i \in 1..Len(beat_times) : 0 <= beat_times[i] /\ beat_times[i] <= dur) =>
        /\ transition_point # None
        /\ 0 <= transition_point /\ transition_point <= dur

\* An accepted bar other than the candidate, in a track with beats in [0, D].
C8_Witness ==
    /\ pc = "done" /\ op = "determine"
    /\ beat_times # <<>>
    /\ \A i \in 1..Len(beat_times) : 0 <= beat_times[i] /\ beat_times[i] <= dur
    /\ transition_point # candidate_sec
    /\ transition_point \in WindowBars

(***************************************************************************)
(* apply_outgoing_tempo                                                    *)
(*                                                                         *)
(* A waveform is a sequence of sample ids: an untouched sample of a track  *)
(* keeps its 1-based index, the k-th sample pyrubberband produces is -k.   *)
(* A ratio is a fraction <<numerator, denominator>>; max_shift is in       *)
(* hundredths.                                                             *)
(***************************************************************************)
MaxShift    == 5     \* max_shift=0.05, in hundredths
MaxTrackSec == 10    \* seconds of a waveform drawn for the tempo harness

TempoRates  == {1, 2}
WindowSecs  == {0, 2, 8}
Bpms        == {-1, 0, 1, 100, 120, 125, 130, 200}

Max(a, b) == IF a > b THEN a ELSE b
Min(a, b) == IF a < b THEN a ELSE b

Track(n) == [i \in 1..n |-> i]

\* Python's y[a:b] for 0 <= a, 0 <= b.
Slice(w, a, b) == SubSeq(w, Min(a, Len(w)) + 1, Min(b, Len(w)))

\* Lines 279-283: the guards and the quotient tgt_bpm / src_bpm.
BpmRatio(src, tgt) ==
    LET s == IF src <= 0 THEN 1 ELSE src
        t == IF tgt <= 0 THEN s ELSE tgt
    IN  <<t, s>>

\* The clamp with its upper limit left out.
ClampRatioNoUpper(r) ==
    IF 100 * r[1] < (100 - MaxShift) * r[2] THEN <<100 - MaxShift, 100>> ELSE r

\* max(1.0 - max_shift, min(ratio, 1.0 + max_shift))
ClampRatio(r) ==
    LET m == IF 100 * r[1] < (100 + MaxShift) * r[2] THEN r ELSE <<100 + MaxShift, 100>>
    IN  IF 100 * m[1] > (100 - MaxShift) * m[2] THEN m ELSE <<100 - MaxShift, 100>>

\* pyrb.time_stretch(segment, sr, ratio): len(segment) / ratio samples, to the
\* nearest sample.
TimeStretch(segment, r) ==
    [k \in 1..((2 * Len(segment) * r[2] + r[1]) \div (2 * r[1])) |-> -k]

\* apply_outgoing_tempo splicing the stretched segment before y[start_sample:].
ApplyOutgoingTempoKeepWindow(w, rate, t, win, src, tgt) ==
    LET start_sec    == Max(0, t - win)
        r            == ClampRatio(BpmRatio(src, tgt))
        start_sample == start_sec * rate
        end_sample   == t * rate
    IN  IF end_sample <= start_sample THEN [ratio |-> r, y |-> w]
        ELSE [ratio |-> r,
              y |-> Slice(w, 0, start_sample)
                    \o TimeStretch(Slice(w, start_sample, end_sample), r)
                    \o Slice(w, start_sample, Len(w))]

\* apply_outgoing_tempo: the clamped ratio and the returned waveform.
ApplyOutgoingTempo(w, rate, t, win, src, tgt) ==
    LET start_sec    == Max(0, t - win)
        r            == ClampRatio(BpmRatio(src, tgt))
        start_sample == start_sec * rate
        end_sample   == t * rate
    IN  IF end_sample <= start_sample THEN [ratio |-> r, y |-> w]
        ELSE [ratio |-> r,
              y |-> Slice(w, 0, start_sample)
                    \o TimeStretch(Slice(w, start_sample, end_sample), r)
                    \o Slice(w, end_sample, Len(w))]

InitTempo ==
    /\ pc = "ready"
    /\ op = "none"
    /\ vocal_energy = <<>>
    /\ sr = 1
    /\ vocal_sections = <<>>
    /\ beat_times = <<>>
    /\ candidate_sec = 0
    /\ dur = 0
    /\ transition_point = None
    /\ InitTempoVars
    /\ InitMixVars
    /\ InitSessVars

\* A call apply_outgoing_tempo(y, sr, transition_time, window_sec, src_bpm, tgt_bpm).
Tempo ==
    /\ pc = "ready"
    /\ \E d \in 0..MaxTrackSec, rate \in TempoRates, t \in 0..(MaxTrackSec + 1),
          win \in WindowSecs, src \in Bpms, tgt \in Bpms :
        LET res == ApplyOutgoingTempo(Track(d * rate), rate, t, win, src, tgt)
        IN  /\ y' = Track(d * rate)
            /\ sr' = rate
            /\ transition_time' = t
            /\ window_sec' = win
            /\ src_bpm' = src
            /\ tgt_bpm' = tgt
            /\ ratio' = res.ratio
            /\ y_out' = res.y
    /\ pc' = "done"
    /\ op' = "tempo"
    /\ UNCHANGED <<vocal_energy, vocal_sections, safeVars, mixVars, sessVars>>

NextTempo == Tempo

SpecTempo == InitTempo /\ [][NextTempo]_vars

\* C6: the ratio is a quotient by a non-zero tempo, lies in
\* [1 - maxShift, 1 + maxShift], is 1.05 for 100 -> 200 and 1.0 for any
\* target tempo <= 0.
C6_RatioClamped ==
    (pc = "done" /\ op = "tempo") =>
        /\ ratio[2] # 0
        /\ (100 - MaxShift) * ratio[2] <= 100 * ratio[1]
        /\ 100 * ratio[1] <= (100 + MaxShift) * ratio[2]
        /\ (src_bpm = 100 /\ tgt_bpm = 200) => 100 * ratio[1] = 105 * ratio[2]
        /\ tgt_bpm <= 0 => ratio[1] = ratio[2]

StartSample == Max(0, transition_time - window_sec) * sr
EndSample   == transition_time * sr

\* The 100 -> 200 case was drawn, clamped to 1.05 and applied to a window.
C6_Witness ==
    /\ pc = "done" /\ op = "tempo"
    /\ src_bpm = 100 /\ tgt_bpm = 200
    /\ ratio = <<105, 100>>
    /\ StartSample < EndSample /\ EndSample <= Len(y)
    /\ Len(y_out) < Len(y)

\* C9: a window of zero or negative length in samples returns the waveform
\* unmodified; otherwise the samples before the window start and the samples
\* from the exit sample onward are the input's, in order, and exactly the
\* samples between them are the stretched segment.
C9_FrameEffect ==
    (pc = "done" /\ op = "tempo") =>
        IF EndSample <= StartSample THEN y_out = y
        ELSE LET pre == Min(StartSample, Len(y))
                 suf == Len(y) - Min(EndSample, Len(y))
             IN  /\ Len(y_out) >= pre + suf
                 /\ SubSeq(y_out, 1, pre) = SubSeq(y, 1, pre)
                 /\ SubSeq(y_out, Len(y_out) - suf + 1, Len(y_out))
                        = SubSeq(y, Len(y) - suf + 1, Len(y))
                 /\ \A i \in (pre + 1)..(Len(y_out) - suf) : y_out[i] < 0

\* A window strictly inside the waveform was re-timed to another length.
C9_Witness ==
    /\ pc = "done" /\ op = "tempo"
    /\ 0 < StartSample /\ StartSample < EndSample /\ EndSample < Len(y)
    /\ Len(y_out) # Len(y)

(***************************************************************************)
(* dj_mix_three_songs, as session_controller calls it (dj_sfx_path = None) *)
(*                                                                         *)
(* A frame of an AudioSegment is <<track, sample id>>; a frame in which    *)
(* a crossfade blends two tracks is <<0, 0>>.  Lengths of segments are     *)
(* milliseconds, as pydub reports them.                                    *)
(***************************************************************************)
CrossfadeMs == 3000   \* crossfade_ms = 3000
TempoWindow == 8      \* the window 8.0 passed to apply_outgoing_tempo

MixDurations   == {5, 20}       \* durations of song1 and of song2
LastDurations  == {2, 20}       \* durations of song3
MixBpms        == {100, 120}    \* tempi BeatAnalyzer reports (120 also on failure)
MixBeatSteps   == {1, 5}        \* seconds between the beats of a reported grid

pureVars == <<pc, op, detVars, safeVars, tempoVars, sessVars>>

\* Beat grids BeatAnalyzer may report for a track of d seconds: none (also
\* the failure default), a single beat, or a regular grid over [0, d].
MixBeatGrids(d) ==
    {<<>>, <<0>>} \cup
    { [k \in 1..(d \div st + 1) |-> (k - 1) * st] : st \in MixBeatSteps }

\* The envelope of a vocal stem of n samples: 1 + n // hop_length frames.
MixEnvelopes(n) == { Rep(1 + n \div HopLength, e) : e \in {0, 2} }

\* np_audio_to_pydub(y, sr) for track k.
NpAudioToPydub(w, rate, k) ==
    [frames |-> [i \in 1..Len(w) |-> <<k, w[i]>>], rate |-> rate]

\* len(segment), milliseconds.
LenMs(a) == (Len(a.frames) * 1000) \div a.rate

\* segment[:ms] for ms >= 0: pydub clamps ms to len(segment).
SliceMs(a, ms) ==
    [frames |-> SubSeq(a.frames, 1, (Min(ms, LenMs(a)) * a.rate) \div 1000),
     rate |-> a.rate]

\* crossfade(audioA, audioB, crossfade_duration) = audioA.append(audioB,
\* crossfade=...): pydub raises ValueError when the crossfade is longer than
\* either segment; else audioA[:-c] + blend + audioB[c:].
Crossfade(a, b, c) ==
    IF c > LenMs(a) \/ c > LenMs(b)
    THEN [ok |-> FALSE, seg |-> EmptySeg]
    ELSE LET keep == ((LenMs(a) - c) * a.rate) \div 1000
             skip == (c * b.rate) \div 1000
         IN  [ok |-> TRUE,
              seg |-> [frames |-> SubSeq(a.frames, 1, keep)
                                  \o Rep(skip, <<0, 0>>)
                                  \o SubSeq(b.frames, skip + 1, Len(b.frames)),
                       rate |-> a.rate]]

InitMix ==
    /\ pc = "idle"
    /\ op = "none"
    /\ vocal_energy = <<>>
    /\ sr = 1
    /\ vocal_sections = <<>>
    /\ beat_times = <<>>
    /\ candidate_sec = 0
    /\ dur = 0
    /\ transition_point = None
    /\ InitTempoVars
    /\ InitSessVars
    /\ mpc = "separate"
    /\ error = "none"
    /\ completed = {}
    /\ D \in MixDurations \X MixDurations \X LastDurations
    /\ msr \in TempoRates
    /\ ys = <<<<>>, <<>>, <<>>>>
    /\ voc = <<<<>>, <<>>>>
    /\ bpm = <<0, 0, 0>>
    /\ bt = <<<<>>, <<>>>>
    /\ t_sec = <<None, None>>
    /\ seg = <<EmptySeg, EmptySeg, EmptySeg>>
    /\ s1_part = EmptySeg
    /\ mix_12 = EmptySeg
    /\ mix_12_duration = 0
    /\ mix_12_part = EmptySeg
    /\ final_mix = EmptySeg
    /\ output_written = 0

\* An exception leaves dj_mix_three_songs at the step in mpc.
Raise(step, e) ==
    /\ mpc = step
    /\ mpc' = "failed"
    /\ error' = e
    /\ UNCHANGED <<completed, D, msr, ys, voc, bpm, bt, t_sec, seg, s1_part, mix_12,
                   mix_12_duration, mix_12_part, final_mix, output_written, pureVars>>

\* Lines 316-318: spleeter_separate_2stem for the three songs.
Separate ==
    /\ mpc = "separate"
    /\ mpc' = "load"
    /\ completed' = completed \cup {"separate"}
    /\ UNCHANGED <<error, D, msr, ys, voc, bpm, bt, t_sec, seg, s1_part, mix_12,
                   mix_12_duration, mix_12_part, final_mix, output_written, pureVars>>

SeparateFails == Raise("separate", "SeparationError")

\* Lines 321-328: load_audio_for_analysis and load_stem_waveform.
Load ==
    /\ mpc = "load"
    /\ ys' = <<Track(D[1] * msr), Track(D[2] * msr), Track(D[3] * msr)>>
    /\ \E e1 \in MixEnvelopes(D[1] * msr), e2 \in MixEnvelopes(D[2] * msr) :
          voc' = <<e1, e2>>
    /\ mpc' = "beats"
    /\ completed' = completed \cup {"load"}
    /\ UNCHANGED <<error, D, msr, bpm, bt, t_sec, seg, s1_part, mix_12,
                   mix_12_duration, mix_12_part, final_mix, output_written, pureVars>>

LoadFails == Raise("load", "LoadError")

\* Lines 331-333: find_bpm_and_beats, which returns (120, []) on failure.
Beats ==
    /\ mpc = "beats"
    /\ \E b \in MixBpms \X MixBpms \X MixBpms,
          g1 \in MixBeatGrids(D[1]), g2 \in MixBeatGrids(D[2]) :
          /\ bpm' = b
          /\ bt' = <<g1, g2>>
    /\ mpc' = "transition"
    /\ completed' = completed \cup {"beats"}
    /\ UNCHANGED <<error, D, msr, ys, voc, t_sec, seg, s1_part, mix_12,
                   mix_12_duration, mix_12_part, final_mix, output_written, pureVars>>

\* Lines 336-337: determine_transition_point for song1 and song2.
Transition ==
    /\ mpc = "transition"
    /\ t_sec' = <<DetermineTransitionPoint(Len(ys[1]) \div msr, voc[1], msr, bt[1]),
                  DetermineTransitionPoint(Len(ys[2]) \div msr, voc[2], msr, bt[2])>>
    /\ mpc' = "tempo"
    /\ completed' = completed \cup {"transition"}
    /\ UNCHANGED <<error, D, msr, ys, voc, bpm, bt, seg, s1_part, mix_12,
                   mix_12_duration, mix_12_part, final_mix, output_written, pureVars>>

\* Lines 340-341: apply_outgoing_tempo for song1 and song2.
TempoStage ==
    /\ mpc = "tempo"
    /\ ys' = <<ApplyOutgoingTempo(ys[1], msr, t_sec[1], TempoWindow, bpm[1], bpm[2]).y,
               ApplyOutgoingTempo(ys[2], msr, t_sec[2], TempoWindow, bpm[2], bpm[3]).y,
               ys[3]>>
    /\ mpc' = "convert"
    /\ completed' = completed \cup {"tempo"}
    /\ UNCHANGED <<error, D, msr, voc, bpm, bt, t_sec, seg, s1_part, mix_12,
                   mix_12_duration, mix_12_part, final_mix, output_written, pureVars>>

TempoFails == Raise("tempo", "StretchError")

\* Lines 344-346: np_audio_to_pydub for the three songs.
Convert ==
    /\ mpc = "convert"
    /\ seg' = <<NpAudioToPydub(ys[1], msr, 1), NpAudioToPydub(ys[2], msr, 2),
                NpAudioToPydub(ys[3], msr, 3)>>
    /\ mpc' = "crossfade12"
    /\ completed' = completed \cup {"convert"}
    /\ UNCHANGED <<error, D, msr, ys, voc, bpm, bt, t_sec, s1_part, mix_12,
                   mix_12_duration, mix_12_part, final_mix, output_written, pureVars>>

\* Lines 350-357: s1_part = s1_seg[:t1_ms] and the first crossfade.
Crossfade12 ==
    /\ mpc = "crossfade12"
    /\ LET part == SliceMs(seg[1], t_sec[1] * 1000)
           x    == Crossfade(part, seg[2], CrossfadeMs)
       IN  /\ s1_part' = part
           /\ IF x.ok
              THEN /\ mix_12' = x.seg
                   /\ mpc' = "truncate"
                   /\ completed' = completed \cup {"crossfade12"}
                   /\ UNCHANGED error
              ELSE /\ mpc' = "failed"
                   /\ error' = "ValueError"
                   /\ UNCHANGED <<mix_12, completed>>
    /\ UNCHANGED <<D, msr, ys, voc, bpm, bt, t_sec, seg, mix_12_duration, mix_12_part,
                   final_mix, output_written, pureVars>>

\* Lines 366-369: the clamped duration and mix_12[:mix_12_duration].
Truncate ==
    /\ mpc = "truncate"
    /\ LET d == (t_sec[1] * 1000 - CrossfadeMs) + t_sec[2] * 1000
           c == IF d < 0 THEN 0 ELSE d
       IN  /\ mix_12_duration' = c
           /\ mix_12_part' = SliceMs(mix_12, c)
    /\ mpc' = "crossfade3"
    /\ completed' = completed \cup {"truncate"}
    /\ UNCHANGED <<error, D, msr, ys, voc, bpm, bt, t_sec, seg, s1_part, mix_12,
                   final_mix, output_written, pureVars>>

\* Line 378: the crossfade into song3.
Crossfade3 ==
    /\ mpc = "crossfade3"
    /\ LET x == Crossfade(mix_12_part, seg[3], CrossfadeMs)
       IN  IF x.ok
           THEN /\ final_mix' = x.seg
                /\ mpc' = "export"
                /\ completed' = completed \cup {"crossfade3"}
                /\ UNCHANGED error
           ELSE /\ mpc' = "failed"
                /\ error' = "ValueError"
                /\ UNCHANGED <<final_mix, completed>>
    /\ UNCHANGED <<D, msr, ys, voc, bpm, bt, t_sec, seg, s1_part, mix_12, mix_12_duration,
                   mix_12_part, output_written, pureVars>>

\* The job writing the output artifact before it aligns the tempi.
ExportEarly ==
    /\ mpc \in {"tempo", "export"}
    /\ output_written = 0
    /\ output_written' = output_written + 1
    /\ mpc' = IF mpc = "export" THEN "done" ELSE mpc
    /\ completed' = completed \cup {"export"}
    /\ UNCHANGED <<error, D, msr, ys, voc, bpm, bt, t_sec, seg, s1_part, mix_12,
                   mix_12_duration, mix_12_part, final_mix, pureVars>>

\* Lines 381-383: final_mix.export(output_path, format="mp3") and the return.
Export ==
    /\ mpc = "export"
    /\ output_written' = output_written + 1
    /\ mpc' = "done"
    /\ completed' = completed \cup {"export"}
    /\ UNCHANGED <<error, D, msr, ys, voc, bpm, bt, t_sec, seg, s1_part, mix_12,
                   mix_12_duration, mix_12_part, final_mix, pureVars>>

NextMix ==
    \/ Separate \/ SeparateFails
    \/ Load \/ LoadFails
    \/ Beats
    \/ Transition
    \/ TempoStage \/ TempoFails
    \/ Convert
    \/ Crossfade12
    \/ Truncate
    \/ Crossfade3
    \/ Export

SpecMix == InitMix /\ [][NextMix]_vars

UpstreamSteps ==
    {"separate", "load", "beats", "transition", "tempo", "convert",
     "crossfade12", "truncate", "crossfade3"}

\* C3: with every track at least one crossfade long, whatever t1 and t2 are,
\* neither crossfade raises: the job is never ended by crossfade's ValueError.
C3_DegenerateTimingNeverRaises ==
    (mpc = "failed" /\ error = "ValueError") =>
        \E k \in 1..3 : LenMs(seg[k]) < CrossfadeMs

AssemblyEnded ==
    mpc \in {"export", "done"} \/ (mpc = "failed" /\ error = "ValueError")

\* C7: when t1 >= crossfadeDuration, t2 <= len(aligned track #2) and
\* (t1 - crossfadeDuration) + t2 >= crossfadeDuration, the assembly produces a
\* mix of duration t1 + t2 + len(track #3) - 2 x crossfadeDuration.
C7_FinalMixDuration ==
    ( /\ AssemblyEnded
      /\ t_sec[1] * 1000 >= CrossfadeMs
      /\ t_sec[2] * 1000 <= LenMs(seg[2])
      /\ (t_sec[1] * 1000 - CrossfadeMs) + t_sec[2] * 1000 >= CrossfadeMs ) =>
        /\ mpc # "failed"
        /\ LenMs(final_mix)
             = t_sec[1] * 1000 + t_sec[2] * 1000 + LenMs(seg[3]) - 2 * CrossfadeMs

\* The frames of aligned track #k that are not from after its transition
\* point: the samples before t_k and the whole re-timed window, which ends
\* at t_k (a re-timed sample has a negative identity).
KeptUpTo(k) == SelectSeq(seg[k].frames, LAMBDA f : f[2] <= t_sec[k] * msr)

\* The frames of track #k in segment a that no crossfade has blended.
FramesOf(a, k) == SelectSeq(a.frames, LAMBDA f : f[1] = k)

\* C12: the audio kept of track #1 is the aligned track up to the sample that
\* was at t1, and the audio of track #2 that follows the first crossfade in
\* the mix is the aligned track #2 up to the sample that was at t2: nothing
\* from after the transition point is kept, nothing from before is dropped.
C12_CutAtTransitionPoint ==
    /\ ("convert" \in completed /\ mpc # "crossfade12") =>
          s1_part.frames = KeptUpTo(1)
    /\ "truncate" \in completed =>
          LET skip == (CrossfadeMs * msr) \div 1000
          IN  FramesOf(mix_12_part, 2) = SubSeq(KeptUpTo(2), skip + 1, Len(KeptUpTo(2)))

(***************************************************************************)
(* session_controller and search_page                                      *)
(*                                                                         *)
(* A token is the number of the session that generated it (uuid4 values    *)
(* are taken to be distinct); 0 is a token no session generated.  An       *)
(* entry of session_inputs carries, beside the query, the request that     *)
(* appended it and the token it was validated against: the code stores     *)
(* the query alone, the other two fields only identify the submission.     *)
(***************************************************************************)
InputWindow == 90    \* INPUT_WINDOW
CycleDelay  == 10    \* CYCLE_DELAY
MaxSessions == 2     \* sessions the controller starts
TickSec     == 30    \* seconds the clock advances in one step
MaxTime     == 210   \* the clock stops here
MaxSubmissions == 3  \* queries the sessions accept altogether

\* A query stands for the title of its top search result as well: distinct
\* queries are taken to find distinct videos.
Queries == {"", "song a", "song b", "song c"}

InitSession ==
    /\ pc = "idle"
    /\ op = "none"
    /\ vocal_energy = <<>>
    /\ sr = 1
    /\ vocal_sections = <<>>
    /\ beat_times = <<>>
    /\ candidate_sec = 0
    /\ dur = 0
    /\ transition_point = None
    /\ InitTempoVars
    /\ InitMixVars
    /\ InitSessVars

engineVars == <<pc, op, detVars, safeVars, tempoVars, mixVars>>

Tick ==
    /\ clock < MaxTime
    /\ clock' = clock + TickSec
    /\ UNCHANGED <<active_token, token_expiry, session_inputs, cpc, wake, tallies,
                   hpc, hreq, dirVars, engineVars>>

\* Line 396: active_token = str(uuid.uuid4()).
NewToken ==
    /\ cpc = "new_token"
    /\ Len(tallies) < MaxSessions
    /\ active_token' = Len(tallies) + 1
    /\ cpc' = "set_expiry"
    /\ UNCHANGED <<token_expiry, session_inputs, clock, wake, tallies, hpc, hreq,
                   dirVars, engineVars>>

\* Line 397: token_expiry = time.time() + INPUT_WINDOW.
SetExpiry ==
    /\ cpc = "set_expiry"
    /\ token_expiry' = clock + InputWindow
    /\ cpc' = "publish"
    /\ UNCHANGED <<active_token, session_inputs, clock, wake, tallies, hpc, hreq,
                   dirVars, engineVars>>

\* Lines 398-403: the QR code is saved and time.sleep(INPUT_WINDOW) begins.
SleepInput ==
    /\ cpc = "publish"
    /\ wake' = clock + InputWindow
    /\ cpc' = "sleep_input"
    /\ UNCHANGED <<active_token, token_expiry, session_inputs, clock, tallies, hpc,
                   hreq, dirVars, engineVars>>

\* The distinct queries of the inputs, in the order of their first submission
\* (the key order of Counter(session_inputs)).
RECURSIVE FirstSeen(_)
FirstSeen(inputs) ==
    IF inputs = <<>> THEN <<>>
    ELSE LET rest == FirstSeen(SubSeq(inputs, 1, Len(inputs) - 1))
             q    == inputs[Len(inputs)].query
         IN  IF \E k \in 1..Len(rest) : rest[k] = q THEN rest ELSE Append(rest, q)

Count(q, inputs) == Cardinality({ k \in 1..Len(inputs) : inputs[k].query = q })

\* q is put behind every query submitted at least as often.
RECURSIVE InsertByCount(_, _, _)
InsertByCount(sorted, q, inputs) ==
    IF sorted = <<>> THEN <<q>>
    ELSE IF Count(q, inputs) > Count(Head(sorted), inputs)
         THEN <<q>> \o sorted
         ELSE <<Head(sorted)>> \o InsertByCount(Tail(sorted), q, inputs)

RECURSIVE SortByCount(_, _)
SortByCount(qs, inputs) ==
    IF qs = <<>> THEN <<>>
    ELSE InsertByCount(SortByCount(SubSeq(qs, 1, Len(qs) - 1), inputs),
                       qs[Len(qs)], inputs)

\* Line 406: [q for q, _ in Counter(session_inputs).most_common(3)]; equal
\* counts keep the order of first submission.
MostCommon(inputs, n) ==
    LET sorted == SortByCount(FirstSeen(inputs), inputs)
    IN  SubSeq(sorted, 1, Min(n, Len(sorted)))

\* Lines 403-407: the sleep ends; under session_lock the inputs are tallied
\* and session_inputs is replaced by an empty list.
Tally ==
    /\ cpc = "sleep_input"
    /\ clock >= wake
    /\ tallies' = Append(tallies, [token |-> active_token, inputs |-> session_inputs])
    /\ top_queries' = MostCommon(session_inputs, 3)
    /\ session_inputs' = <<>>
    /\ cpc' = "process"
    /\ UNCHANGED <<active_token, token_expiry, clock, wake, hpc, hreq, download_dir,
                   mix_calls, engineVars>>

Range(s) == { s[k] : k \in 1..Len(s) }

\* Lines 127-148: every query is searched and its top result handed to a
\* download of the thread pool.  A search may find nothing and a download
\* may fail; the downloads that succeed finish in any order.  The value is
\* the set of the possible orders of completion.
DownloadOrders(queries) ==
    { done \in UNION { [1..n -> Range(queries)] : n \in 0..Len(queries) } :
        \A a, b \in 1..Len(done) : a # b => done[a] # done[b] }

\* Lines 88-125: yt-dlp writes "<title>.mp3" into DOWNLOAD_DIR.  A file of
\* that name that is already there is kept as it is.  mtime numbers the
\* files in the order of their writing; no file of the directory is ever
\* removed.
WriteFile(dir, title) ==
    IF \E f \in dir : f.title = title THEN dir
    ELSE dir \cup {[title |-> title, mtime |-> Cardinality(dir) + 1]}

RECURSIVE WriteAll(_, _)
WriteAll(dir, done) ==
    IF done = <<>> THEN dir
    ELSE WriteAll(WriteFile(dir, Head(done)), Tail(done))

\* Line 414: files.sort(key=lambda x: os.path.getmtime(x)).
RECURSIVE SortByMtime(_)
SortByMtime(files) ==
    IF files = {} THEN <<>>
    ELSE LET f == CHOOSE f \in files : \A g \in files : f.mtime <= g.mtime
         IN  <<f>> \o SortByMtime(files \ {f})

\* Lines 408-428: the top queries are downloaded, the .mp3 files of the
\* directory are listed and, when there are three, dj_mix_three_songs is
\* called on files[:3]; then time.sleep(CYCLE_DELAY) begins.  The call is
\* recorded with the session and its top queries; an exception of the mix
\* is caught at line 420.
Process ==
    /\ cpc = "process"
    /\ IF top_queries = <<>>
       THEN UNCHANGED <<download_dir, mix_calls>>
       ELSE \E done \in DownloadOrders(top_queries) :
               LET dir   == WriteAll(download_dir, done)
                   files == SortByMtime(dir)
               IN  /\ download_dir' = dir
                   /\ mix_calls' =
                         IF Len(files) >= 3
                         THEN Append(mix_calls,
                                     [session |-> Len(tallies),
                                      queries |-> top_queries,
                                      songs   |-> [k \in 1..3 |-> files[k].title]])
                         ELSE mix_calls
    /\ wake' = clock + CycleDelay
    /\ cpc' = "sleep_cycle"
    /\ UNCHANGED <<active_token, token_expiry, session_inputs, clock, tallies, hpc,
                   hreq, top_queries, engineVars>>

\* Line 428 to line 395: the sleep ends and the loop starts over.
NextCycle ==
    /\ cpc = "sleep_cycle"
    /\ clock >= wake
    /\ cpc' = "new_token"
    /\ UNCHANGED <<active_token, token_expiry, session_inputs, clock, wake, tallies,
                   hpc, hreq, dirVars, engineVars>>

\* Line 551: a request for /search/<token> arrives; now = time.time().  The
\* token is one a session has generated, or one none has (0).
Request(h) ==
    /\ hpc[h] = "idle"
    /\ \E tok \in 0..(IF active_token = None THEN 0 ELSE active_token) :
          hreq' = [hreq EXCEPT ![h] =
                      [token |-> tok, method |-> "GET", query |-> "", now |-> clock,
                       valid |-> FALSE]]
    /\ hpc' = [hpc EXCEPT ![h] = "check_token"]
    /\ UNCHANGED <<active_token, token_expiry, session_inputs, clock, cpc, wake,
                   tallies, dirVars, engineVars>>

\* Line 552, left operand: token == active_token ("and" stops at False).
CheckToken(h) ==
    /\ hpc[h] = "check_token"
    /\ IF hreq[h].token = active_token
       THEN /\ hpc' = [hpc EXCEPT ![h] = "check_expiry"]
            /\ UNCHANGED hreq
       ELSE /\ hpc' = [hpc EXCEPT ![h] = "respond"]
            /\ hreq' = [hreq EXCEPT ![h].now = 0]
    /\ UNCHANGED <<active_token, token_expiry, session_inputs, clock, cpc, wake,
                   tallies, dirVars, engineVars>>

\* Line 552, right operand: now < token_expiry.  now is not read again
\* by a POST, so the model forgets it.
CheckExpiry(h) ==
    /\ hpc[h] = "check_expiry"
    /\ hreq' = [hreq EXCEPT ![h].valid = hreq[h].now < token_expiry, ![h].now = 0]
    /\ hpc' = [hpc EXCEPT ![h] = "respond"]
    /\ UNCHANGED <<active_token, token_expiry, session_inputs, clock, cpc, wake,
                   tallies, dirVars, engineVars>>

\* Lines 554-565: request.method and the form's query are read here for the
\* first time, so the model draws them here.  A valid POST with a non-empty
\* query appends it under session_lock; every other request only answers.
Respond(h) ==
    /\ hpc[h] = "respond"
    /\ \E m \in {"GET", "POST"}, q \in Queries :
          IF m = "POST" /\ hreq[h].valid /\ q # ""
          THEN /\ session_inputs' =
                     Append(session_inputs,
                            [query |-> q, by |-> h, token |-> hreq[h].token])
               /\ hreq' = [hreq EXCEPT ![h].method = m, ![h].query = q]
          ELSE /\ hreq' = [hreq EXCEPT ![h] = NoRequest]
               /\ UNCHANGED session_inputs
    /\ hpc' = [hpc EXCEPT ![h] = "done"]
    /\ UNCHANGED <<active_token, token_expiry, clock, cpc, wake, tallies, dirVars, engineVars>>

NextSession ==
    \/ Tick
    \/ NewToken \/ SetExpiry \/ SleepInput \/ Tally \/ Process \/ NextCycle
    \/ \E h \in Handlers : Request(h) \/ CheckToken(h) \/ CheckExpiry(h) \/ Respond(h)

SpecSession == InitSession /\ [][NextSession]_vars

\* The requests whose POST search_page validated against token T and
\* answered "Submitted".
Validated(T) ==
    { h \in Handlers :
        /\ hpc[h] = "done"
        /\ hreq[h].method = "POST" /\ hreq[h].valid /\ hreq[h].query # ""
        /\ hreq[h].token = T }

\* C10: once the tally of session T is taken, every query validated against
\* T is in it, and no tally holds a query validated against another session.
C10_ValidatedQueryCountedInItsSession ==
    \A i \in 1..Len(tallies) :
        /\ \A h \in Validated(tallies[i].token) :
              \E k \in 1..Len(tallies[i].inputs) : tallies[i].inputs[k].by = h
        /\ \A k \in 1..Len(tallies[i].inputs) :
              tallies[i].inputs[k].token = tallies[i].token

(***************************************************************************)
(* Session cycles with requests served one after another                   *)
(***************************************************************************)
\* The queries the sessions have accepted so far.
RECURSIVE Tallied(_)
Tallied(ts) == IF ts = <<>> THEN 0 ELSE Len(Head(ts).inputs) + Tallied(Tail(ts))

Submitted == Len(session_inputs) + Tallied(tallies)

\* Line 551, while fewer than MaxSubmissions queries have been accepted.
Arrive(h) ==
    /\ Submitted < MaxSubmissions
    /\ Request(h)

\* Line 565: the response is sent; the worker serves the next request.
Return(h) ==
    /\ hpc[h] = "done"
    /\ hpc' = [hpc EXCEPT ![h] = "idle"]
    /\ hreq' = [hreq EXCEPT ![h] = NoRequest]
    /\ UNCHANGED <<active_token, token_expiry, session_inputs, clock, cpc, wake,
                   tallies, dirVars, engineVars>>

NextCycles ==
    \/ Tick
    \/ NewToken \/ SetExpiry \/ SleepInput \/ Tally \/ Process \/ NextCycle
    \/ Arrive(1) \/ CheckToken(1) \/ CheckExpiry(1) \/ Respond(1) \/ Return(1)

SpecCycles == InitSession /\ [][NextCycles]_vars

\* C11: the three tracks of every call of dj_mix_three_songs are tracks of
\* the top queries of the session that made the call.
C11_MixedTracksAreOfTheSession ==
    \A i \in 1..Len(mix_calls) :
        \A k \in 1..3 : mix_calls[i].songs[k] \in Range(mix_calls[i].queries)

====
